---- MODULE Spec2Model ----
(***************************************************************************)
(* Model of app1.py: the Streamlit dashboard of wind-energy projects per   *)
(* Colombian department.  One page render is one run of the script: the    *)
(* memoized loader cargar_datos, the per-department count and left merge   *)
(* onto the GeoJSON regions, the per-year count, and the summary metrics.  *)
(*                                                                         *)
(* Encoding.  A string is a sequence of one-character strings.  A value    *)
(* that may be missing (Python None, pandas NaN) is None == << >> or       *)
(* Some(x) == <<x>>.  A DataFrame is the sequence of its rows, each row a  *)
(* record of its columns.                                                  *)
(***************************************************************************)
EXTENDS Integers, Sequences, FiniteSets, TLC

VARIABLES
    pc,                   \* position of the running script
    renders,              \* number of script runs started so far
    cache,                \* st.cache_data entry of cargar_datos
    lecturas,             \* how many times the body of cargar_datos has run
    falla,                \* outcome of the last run of that body
    gdf,                  \* script variable gdf
    df_excel,             \* script variable df_excel
    proyectos_por_depto,  \* script variable proyectos_por_depto
    gdf_merged,           \* script variable gdf_merged
    proyectos_por_anio,   \* script variable proyectos_por_año
    metricas,             \* what st.metric has shown in this run
    tabla_resumen,        \* script variable tabla_resumen
    s1, s2,               \* two raw names (normalization study)
    n1, n2,               \* their normalized forms
    paso                  \* position of the normalization study

vars == <<pc, renders, cache, lecturas, falla, gdf, df_excel,
          proyectos_por_depto, gdf_merged, proyectos_por_anio, metricas,
          tabla_resumen, s1, s2, n1, n2, paso>>

scriptVars == <<pc, renders, cache, lecturas, falla, gdf, df_excel,
                proyectos_por_depto, gdf_merged, proyectos_por_anio, metricas,
                tabla_resumen>>

normVars == <<s1, s2, n1, n2, paso>>

(***************************************************************************)
(* Bounds                                                                  *)
(***************************************************************************)
MaxRegiones == 2
MaxProyectos == 5
MaxRenders == 2
MaxStrLen == 3

(***************************************************************************)
(* Missing values                                                          *)
(***************************************************************************)
None == << >>

Some(x) == <<x>>

isna(v) == v = None

(***************************************************************************)
(* Strings: str.upper(), str.strip(), str.title()                          *)
(***************************************************************************)
Alfabeto == {"a", "A", "b", " "}

Blancos == {" "}

Minusculas == {"a", "b"}

Mayusculas == {"A", "B"}

upperChar(c) == CASE c = "a" -> "A" [] c = "b" -> "B" [] OTHER -> c

lowerChar(c) == CASE c = "A" -> "a" [] c = "B" -> "b" [] OTHER -> c

upper(s) == [i \in 1..Len(s) |-> upperChar(s[i])]

RECURSIVE lstrip(_)
lstrip(s) == IF s # << >> /\ Head(s) \in Blancos THEN lstrip(Tail(s)) ELSE s

RECURSIVE rstrip(_)
rstrip(s) ==
    IF s # << >> /\ s[Len(s)] \in Blancos
    THEN rstrip(SubSeq(s, 1, Len(s) - 1))
    ELSE s

stripSoloIzquierda(s) == lstrip(s)

strip(s) == rstrip(lstrip(s))

\* .str.upper().str.strip() on one cell
Normalizar(s) == strip(upper(s))

\* str.title(): a cased character is uppercased when it starts a word
\* (no cased character right before it) and lowercased otherwise
title(s) ==
    [i \in 1..Len(s) |->
        IF i = 1 \/ s[i - 1] \notin (Minusculas \cup Mayusculas)
        THEN upperChar(s[i])
        ELSE lowerChar(s[i])]

RECURSIVE Cadenas(_)
Cadenas(n) ==
    IF n = 0 THEN {<< >>}
    ELSE LET prev == Cadenas(n - 1)
         IN  prev \cup {Append(s, c) : s \in {x \in prev : Len(x) = n - 1},
                                       c \in Alfabeto}

(***************************************************************************)
(* Contents the two resource files may have                                *)
(***************************************************************************)
NombresRegion == {<<" ", "a">>, <<"b">>}

\* The rows of the spreadsheet.  The script processes the two columns
\* independently of each other, so every department spelling comes with
\* one year: each column still takes every sequence of its values.
FilasExcel ==
    {[Departamento |-> Some(<<"a">>),      Anio |-> Some(2020)],
     [Departamento |-> Some(<<"A", " ">>), Anio |-> Some(2019)],
     [Departamento |-> Some(<<" ", "a">>), Anio |-> Some(2020)],
     [Departamento |-> Some(<<"b">>),      Anio |-> None]}

Anios == {f.Anio[1] : f \in {g \in FilasExcel : g.Anio # << >>}}

FilasGeo == [NOMBRE_DPT : NombresRegion]

RECURSIVE Tablas(_, _)
Tablas(filas, n) ==
    IF n = 0 THEN {<< >>}
    ELSE LET prev == Tablas(filas, n - 1)
         IN  prev \cup {Append(t, f) : t \in {x \in prev : Len(x) = n - 1},
                                       f \in filas}

\* What gpd.read_file / pd.read_excel may give: None when the read raises
LecturasGeo == {None} \cup {Some(t) : t \in Tablas(FilasGeo, MaxRegiones)}

LecturasExcel == {None} \cup {Some(t) : t \in Tablas(FilasExcel, MaxProyectos)}

(***************************************************************************)
(* pandas helpers, as the script uses them                                 *)
(***************************************************************************)
Columna(df, col) == [i \in 1..Len(df) |-> df[i][col]]

\* distinct non-missing values of a column, in order of first appearance
RECURSIVE unique(_)
unique(col) ==
    IF col = << >> THEN << >>
    ELSE LET antes == unique(SubSeq(col, 1, Len(col) - 1))
             v == col[Len(col)]
         IN  IF isna(v) \/ \E i \in 1..Len(antes) : antes[i] = v[1]
             THEN antes
             ELSE Append(antes, v[1])

\* number of cells of the column holding the value v
Apariciones(col, v) == Cardinality({i \in 1..Len(col) : col[i] = Some(v)})

\* stable insertion of a row into rows sorted by descending count
RECURSIVE InsertarDesc(_, _)
InsertarDesc(filas, f) ==
    IF filas = << >> THEN <<f>>
    ELSE IF Head(filas).Cantidad_Proyectos >= f.Cantidad_Proyectos
         THEN <<Head(filas)>> \o InsertarDesc(Tail(filas), f)
         ELSE <<f>> \o filas

\* sort_values('Cantidad_Proyectos', ascending=False), stable
RECURSIVE sort_values_desc(_)
sort_values_desc(filas) ==
    IF filas = << >> THEN << >>
    ELSE InsertarDesc(sort_values_desc(SubSeq(filas, 1, Len(filas) - 1)),
                      filas[Len(filas)])

\* df_excel['Departamento'].value_counts().reset_index(): one row per
\* distinct raw value (missing values dropped), most frequent first
value_counts(col) ==
    LET u == unique(col)
    IN  sort_values_desc([i \in 1..Len(u) |->
            [Departamento |-> u[i],
             Cantidad_Proyectos |-> Apariciones(col, u[i])]])

\* proyectos_por_depto['Departamento'].str.upper().str.strip()
NormalizarDepartamento(filas) ==
    [i \in 1..Len(filas) |->
        [filas[i] EXCEPT !.Departamento = Normalizar(@)]]

\* gdf['NOMBRE_DPT'].str.upper().str.strip()
NormalizarNombreDpt(filas) ==
    [i \in 1..Len(filas) |->
        [filas[i] EXCEPT !.NOMBRE_DPT = Normalizar(@)]]

\* gdf.merge(proyectos_por_depto, left_on='NOMBRE_DPT',
\*           right_on='Departamento', how='left'):
\* every left row, in order, once per matching right row (in the right
\* order), or once with missing right columns when nothing matches
RECURSIVE merge_left(_, _)
merge_left(izq, der) ==
    IF izq = << >> THEN << >>
    ELSE LET l == Head(izq)
             Coincide(r) == r.Departamento = l.NOMBRE_DPT
             m == SelectSeq(der, Coincide)
             filas ==
                 IF m = << >>
                 THEN <<[NOMBRE_DPT |-> l.NOMBRE_DPT,
                         Departamento |-> None,
                         Cantidad_Proyectos |-> None]>>
                 ELSE [j \in 1..Len(m) |->
                         [NOMBRE_DPT |-> l.NOMBRE_DPT,
                          Departamento |-> Some(m[j].Departamento),
                          Cantidad_Proyectos |-> Some(m[j].Cantidad_Proyectos)]]
         IN  filas \o merge_left(Tail(izq), der)

fillna_uno(filas) ==
    [i \in 1..Len(filas) |->
        [filas[i] EXCEPT !.Cantidad_Proyectos = IF isna(@) THEN 1 ELSE @[1]]]

\* gdf_merged['Cantidad_Proyectos'].fillna(0)
fillna(filas) ==
    [i \in 1..Len(filas) |->
        [filas[i] EXCEPT !.Cantidad_Proyectos = IF isna(@) THEN 0 ELSE @[1]]]

\* df_excel.dropna(subset=['Año de publicación'])
dropna(df) ==
    LET Tiene(f) == ~isna(f.Anio)
    IN  SelectSeq(df, Tiene)

\* the smallest element of a non-empty set of integers
Minimo(S) == CHOOSE x \in S : \A y \in S : x <= y

Maximo(S) == CHOOSE x \in S : \A y \in S : x >= y

\* the elements of a finite set of integers in ascending order
RECURSIVE Ascendente(_)
Ascendente(S) ==
    IF S = {} THEN << >>
    ELSE <<Minimo(S)>> \o Ascendente(S \ {Minimo(S)})

\* one row per record instead of one per group
groupby_sin_agrupar(df) ==
    LET col == Columna(df, "Anio")
        conAnio == SelectSeq(col, LAMBDA v : ~isna(v))
    IN  [k \in 1..Len(conAnio) |->
            [Anio |-> conAnio[k][1], Cantidad_Proyectos |-> 1]]

\* the number of groups instead of the size of each group
groupby_cuenta_uno(df) ==
    LET col == Columna(df, "Anio")
        claves == Ascendente({col[i][1] : i \in {j \in 1..Len(col) : ~isna(col[j])}})
    IN  [k \in 1..Len(claves) |->
            [Anio |-> claves[k], Cantidad_Proyectos |-> 1]]

\* groupby('Año de publicación').size().reset_index(name=...): one row
\* per distinct non-missing key, keys sorted, with the size of its group
groupby_size(df) ==
    LET col == Columna(df, "Anio")
        claves == Ascendente({col[i][1] : i \in {j \in 1..Len(col) : ~isna(col[j])}})
    IN  [k \in 1..Len(claves) |->
            [Anio |-> claves[k],
             Cantidad_Proyectos |-> Apariciones(col, claves[k])]]

\* stable insertion of a row into rows sorted by ascending year
RECURSIVE InsertarAnio(_, _)
InsertarAnio(filas, f) ==
    IF filas = << >> THEN <<f>>
    ELSE IF Head(filas).Anio <= f.Anio
         THEN <<Head(filas)>> \o InsertarAnio(Tail(filas), f)
         ELSE <<f>> \o filas

\* sort_values('Año de publicación')
RECURSIVE sort_values_anio(_)
sort_values_anio(filas) ==
    IF filas = << >> THEN << >>
    ELSE InsertarAnio(sort_values_anio(SubSeq(filas, 1, Len(filas) - 1)),
                      filas[Len(filas)])

(***************************************************************************)
(* The loader and its cache                                                *)
(***************************************************************************)
\* The body of cargar_datos.  lecGeo and lecExcel are what the two reads
\* give (None: the read raises).  The except clause turns any failure
\* into (None, None); the Excel file is not read once the GeoJSON failed.
cargar_datos_parcial(lecGeo, lecExcel) ==
    IF isna(lecGeo) THEN <<None, None>> ELSE <<lecGeo, lecExcel>>

cargar_datos(lecGeo, lecExcel) ==
    IF isna(lecGeo) THEN <<None, None>>
    ELSE IF isna(lecExcel) THEN <<None, None>>
    ELSE <<lecGeo, lecExcel>>

\* which read raised, if any
Falla(lecGeo, lecExcel) ==
    IF isna(lecGeo) THEN "geojson"
    ELSE IF isna(lecExcel) THEN "excel"
    ELSE "ninguna"

\* @st.cache_data: the function has no parameters, so there is one entry
SinCache(c) == FALSE

CacheHit(c) == ~isna(c)

(***************************************************************************)
(* The script, one action per block                                        *)
(***************************************************************************)
SinDatos ==
    /\ gdf = None
    /\ df_excel = None
    /\ proyectos_por_depto = << >>
    /\ gdf_merged = << >>
    /\ proyectos_por_anio = << >>
    /\ metricas = None
    /\ tabla_resumen = << >>

NormQuieto ==
    /\ s1 = << >>
    /\ s2 = << >>
    /\ n1 = << >>
    /\ n2 = << >>
    /\ paso = "quieto"

Init ==
    /\ pc = "inicio"
    /\ renders = 1
    /\ cache = None
    /\ lecturas = 0
    /\ falla = "sin_leer"
    /\ SinDatos
    /\ NormQuieto

\* line 36: gdf, df_excel = cargar_datos(), through the cache
CargarDatos ==
    /\ pc = "inicio"
    /\ IF CacheHit(cache)
       THEN /\ gdf' = cache[1][1]
            /\ df_excel' = cache[1][2]
            /\ UNCHANGED <<cache, lecturas, falla>>
       ELSE \E lecGeo \in LecturasGeo, lecExcel \in LecturasExcel :
               LET r == cargar_datos(lecGeo, lecExcel)
               IN  /\ cache' = Some(r)
                   /\ lecturas' = lecturas + 1
                   /\ falla' = Falla(lecGeo, lecExcel)
                   /\ gdf' = r[1]
                   /\ df_excel' = r[2]
    /\ pc' = "cargado"
    /\ UNCHANGED <<renders, proyectos_por_depto, gdf_merged,
                   proyectos_por_anio, metricas, tabla_resumen>>
    /\ UNCHANGED normVars

\* line 38
HayDatos == ~isna(gdf) /\ ~isna(df_excel)

\* lines 40-92: count per department, normalize both sides, left merge,
\* fill the missing counts with 0 (to_crs and the map change no column)
ContarPorDepartamento ==
    /\ pc = "cargado"
    /\ HayDatos
    /\ LET ppd == NormalizarDepartamento(
                      value_counts(Columna(df_excel[1], "Departamento")))
           g == NormalizarNombreDpt(gdf[1])
       IN  /\ proyectos_por_depto' = ppd
           /\ gdf' = Some(g)
           /\ gdf_merged' = fillna(merge_left(g, ppd))
    /\ pc' = "mapa"
    /\ UNCHANGED <<renders, cache, lecturas, falla, df_excel,
                   proyectos_por_anio, metricas, tabla_resumen>>
    /\ UNCHANGED normVars

\* lines 94-123: count per publication year
ContarPorAnio ==
    /\ pc = "mapa"
    /\ LET df_excel_clean == dropna(df_excel[1])
       IN  proyectos_por_anio' = sort_values_anio(groupby_size(df_excel_clean))
    /\ pc' = "linea"
    /\ UNCHANGED <<renders, cache, lecturas, falla, gdf, df_excel,
                   proyectos_por_depto, gdf_merged, metricas, tabla_resumen>>
    /\ UNCHANGED normVars

\* lines 144-147: the first row of proyectos_por_depto, title-cased
dept_max(ppd) ==
    IF Len(ppd) > 0 THEN Some(title(ppd[1].Departamento)) ELSE None

\* lines 134-135: rows of gdf_merged with a positive count
ConProyectos(gm) ==
    Cardinality({i \in 1..Len(gm) : gm[i].Cantidad_Proyectos > 0})

\* lines 137-142: smallest and largest year, None for "N/A"
RangoAnios(df) ==
    LET col == Columna(df, "Anio")
        disponibles == {col[i][1] : i \in {j \in 1..Len(col) : ~isna(col[j])}}
    IN  IF disponibles # {}
        THEN Some(<<Minimo(disponibles), Maximo(disponibles)>>)
        ELSE None

\* lines 125-161: the four metrics and the detail table
Estadisticas ==
    /\ pc = "linea"
    /\ metricas' =
           [total |-> Len(df_excel[1]),
            departamentos |-> ConProyectos(gdf_merged),
            rango |-> RangoAnios(df_excel[1]),
            dept_max |-> dept_max(proyectos_por_depto)]
    /\ tabla_resumen' =
           sort_values_desc(
               [i \in 1..Len(proyectos_por_depto) |->
                   [proyectos_por_depto[i] EXCEPT !.Departamento = title(@)]])
    /\ pc' = "fin"
    /\ UNCHANGED <<renders, cache, lecturas, falla, gdf, df_excel,
                   proyectos_por_depto, gdf_merged, proyectos_por_anio>>
    /\ UNCHANGED normVars

\* lines 163-173: the diagnostic panel
Diagnostico ==
    /\ pc = "cargado"
    /\ ~HayDatos
    /\ pc' = "diagnostico"
    /\ UNCHANGED <<renders, cache, lecturas, falla, gdf, df_excel,
                   proyectos_por_depto, gdf_merged, proyectos_por_anio,
                   metricas, tabla_resumen>>
    /\ UNCHANGED normVars

\* Streamlit runs the script again for the next page render: the script
\* variables start afresh, the cache of the process stays
Rerun ==
    /\ pc \in {"fin", "diagnostico"}
    /\ renders < MaxRenders
    /\ renders' = renders + 1
    /\ pc' = "inicio"
    /\ gdf' = None
    /\ df_excel' = None
    /\ proyectos_por_depto' = << >>
    /\ gdf_merged' = << >>
    /\ proyectos_por_anio' = << >>
    /\ metricas' = None
    /\ tabla_resumen' = << >>
    /\ UNCHANGED <<cache, lecturas, falla>>
    /\ UNCHANGED normVars

Next ==
    \/ CargarDatos
    \/ ContarPorDepartamento
    \/ ContarPorAnio
    \/ Estadisticas
    \/ Diagnostico
    \/ Rerun

Spec == Init /\ [][Next]_vars

(***************************************************************************)
(* The name normalization on its own: two raw names are normalized, then   *)
(* their normalized forms are normalized again                             *)
(***************************************************************************)
InitNorm ==
    /\ pc = "quieto"
    /\ renders = 0
    /\ cache = None
    /\ lecturas = 0
    /\ falla = "sin_leer"
    /\ SinDatos
    /\ s1 \in Cadenas(MaxStrLen)
    /\ s2 \in Cadenas(MaxStrLen)
    /\ n1 = << >>
    /\ n2 = << >>
    /\ paso = "crudo"

NormalizarNombres ==
    /\ paso = "crudo"
    /\ n1' = <<Normalizar(s1)>>
    /\ n2' = <<Normalizar(s2)>>
    /\ paso' = "normalizado"
    /\ UNCHANGED <<s1, s2>>
    /\ UNCHANGED scriptVars

Renormalizar ==
    /\ paso = "normalizado"
    /\ n1' = Append(n1, Normalizar(n1[1]))
    /\ n2' = Append(n2, Normalizar(n2[1]))
    /\ paso' = "renormalizado"
    /\ UNCHANGED <<s1, s2>>
    /\ UNCHANGED scriptVars

NextNorm ==
    \/ NormalizarNombres
    \/ Renormalizar

SpecNorm == InitNorm /\ [][NextNorm]_vars

(***************************************************************************)
(* Reference notions the properties are stated with                        *)
(***************************************************************************)
\* the script is past the per-department block
Agregado == pc \in {"mapa", "linea", "fin"}

\* the script is past the per-year block
AgregadoPorAnio == pc \in {"linea", "fin"}

\* the region collection R and the record collection P as loaded
Regiones == cache[1][1][1]

Proyectos == cache[1][2][1]

\* the records whose department, uppercased and trimmed, is the name
Coincidencias(nombre) ==
    {i \in 1..Len(Proyectos) :
        /\ ~isna(Proyectos[i].Departamento)
        /\ Normalizar(Proyectos[i].Departamento[1]) = Normalizar(nombre)}

\* the record's department names some region
NombraRegion(i) ==
    \E k \in 1..Len(Regiones) : i \in Coincidencias(Regiones[k].NOMBRE_DPT)

NombresDistintos ==
    \A i, j \in 1..Len(Regiones) :
        i # j => Normalizar(Regiones[i].NOMBRE_DPT)
                     # Normalizar(Regiones[j].NOMBRE_DPT)

RECURSIVE SumaCantidad(_)
SumaCantidad(filas) ==
    IF filas = << >> THEN 0
    ELSE Head(filas).Cantidad_Proyectos + SumaCantidad(Tail(filas))

FilasDe(nombre) ==
    {j \in 1..Len(gdf_merged) : gdf_merged[j].NOMBRE_DPT = Normalizar(nombre)}

ConAnio(y) == {i \in 1..Len(Proyectos) : Proyectos[i].Anio = Some(y)}

SinAnio == {i \in 1..Len(Proyectos) : isna(Proyectos[i].Anio)}

\* the first region, in the order of R, with the greatest number of records
PrimeraMayor ==
    CHOOSE k \in 1..Len(Regiones) :
        /\ \A j \in 1..Len(Regiones) :
               Cardinality(Coincidencias(Regiones[j].NOMBRE_DPT))
                   <= Cardinality(Coincidencias(Regiones[k].NOMBRE_DPT))
        /\ \A j \in 1..(k - 1) :
               Cardinality(Coincidencias(Regiones[j].NOMBRE_DPT))
                   < Cardinality(Coincidencias(Regiones[k].NOMBRE_DPT))

\* s[i..j] is s without its leading and trailing blanks
EsNucleo(s, i, j) ==
    /\ i \in 1..(Len(s) + 1)
    /\ j \in 0..Len(s)
    /\ i <= j + 1
    /\ \A k \in 1..(i - 1) : s[k] \in Blancos
    /\ \A k \in (j + 1)..Len(s) : s[k] \in Blancos
    /\ i <= j => s[i] \notin Blancos /\ s[j] \notin Blancos

ParesDeCaja == {{"a", "A"}, {"b", "B"}}

MismaLetra(c, d) == c = d \/ {c, d} \in ParesDeCaja

\* s and t differ only in letter case and in leading/trailing blanks
Equivalentes(s, t) ==
    \E i \in 1..(Len(s) + 1), j \in 0..Len(s) :
        /\ EsNucleo(s, i, j)
        /\ \E k \in 1..(Len(t) + 1), l \in 0..Len(t) :
               /\ EsNucleo(t, k, l)
               /\ j - i = l - k
               /\ \A d \in 0..(j - i) : MismaLetra(s[i + d], t[k + d])

(***************************************************************************)
(* Properties                                                              *)
(***************************************************************************)
\* C1: after the per-department block every region of R has its entry in
\* gdf_merged, and the project count of that entry is the number of
\* records of P whose department, uppercased and trimmed, equals the
\* region's name uppercased and trimmed (0 when there is none): records
\* spelled differently but normalizing to one name add up in one count.
C1_ConteoPorRegion ==
    Agregado =>
        \A k \in 1..Len(Regiones) :
            /\ FilasDe(Regiones[k].NOMBRE_DPT) # {}
            /\ \A j \in FilasDe(Regiones[k].NOMBRE_DPT) :
                   gdf_merged[j].Cantidad_Proyectos
                       = Cardinality(Coincidencias(Regiones[k].NOMBRE_DPT))

\* C2: gdf_merged has exactly len(R) entries, the k-th being the k-th
\* region of R, each with a count >= 0.
C2_UnaFilaPorRegion ==
    Agregado =>
        /\ Len(gdf_merged) = Len(Regiones)
        /\ \A k \in 1..Len(Regiones) :
               /\ gdf_merged[k].NOMBRE_DPT = Normalizar(Regiones[k].NOMBRE_DPT)
               /\ gdf_merged[k].Cantidad_Proyectos >= 0

\* the sum of the counts of gdf_merged is at most len(P), with equality
\* exactly when every record names some region
SumaAcotada ==
    /\ SumaCantidad(gdf_merged) <= Len(Proyectos)
    /\ SumaCantidad(gdf_merged) = Len(Proyectos)
           <=> \A i \in 1..Len(Proyectos) : NombraRegion(i)

\* C3 as stated: for all R and P the sum of the counts is at most len(P),
\* and equals len(P) iff every record's normalized department is the
\* normalized name of some region.
C3_SumaAcotadaSiempre == Agregado => SumaAcotada

\* C3 amended: the same, for region collections in which no two regions
\* have the same normalized name.
C3_SumaAcotadaNombresDistintos == Agregado /\ NombresDistintos => SumaAcotada

C3_Testigo ==
    /\ Agregado
    /\ NombresDistintos
    /\ Len(Regiones) = 2
    /\ Len(gdf_merged) > 2
    /\ Len(Proyectos) = 3
    /\ SumaCantidad(gdf_merged) = 3

\* C4: after the per-year block every entry of proyectos_por_año carries
\* the year of some record, the records without year are counted in no
\* entry, and the years are strictly increasing (so none appears twice).
C4_AniosCrecientes ==
    AgregadoPorAnio =>
        /\ \A k \in 1..Len(proyectos_por_anio) :
               ConAnio(proyectos_por_anio[k].Anio) # {}
        /\ SumaCantidad(proyectos_por_anio)
               <= Len(Proyectos) - Cardinality(SinAnio)
        /\ \A k \in 1..(Len(proyectos_por_anio) - 1) :
               proyectos_por_anio[k].Anio < proyectos_por_anio[k + 1].Anio

C4_Testigo ==
    /\ AgregadoPorAnio
    /\ Len(Proyectos) >= 3
    /\ Proyectos[1].Anio = Some(2020)
    /\ Proyectos[2].Anio = Some(2019)
    /\ SinAnio # {}
    /\ Len(proyectos_por_anio) = 2

\* C5: proyectos_por_año has an entry for year y exactly when some record
\* has year y; the entry's count is the number of those records, hence
\* positive; the counts add up to the number of records with a year; and
\* an empty P gives an empty aggregate.
C5_ConteoPorAnio ==
    AgregadoPorAnio =>
        /\ \A y \in Anios :
               (\E k \in 1..Len(proyectos_por_anio) :
                    proyectos_por_anio[k].Anio = y) <=> ConAnio(y) # {}
        /\ \A k \in 1..Len(proyectos_por_anio) :
               /\ proyectos_por_anio[k].Cantidad_Proyectos
                      = Cardinality(ConAnio(proyectos_por_anio[k].Anio))
               /\ proyectos_por_anio[k].Cantidad_Proyectos > 0
        /\ SumaCantidad(proyectos_por_anio)
               = Len(Proyectos) - Cardinality(SinAnio)
        /\ Proyectos = << >> => proyectos_por_anio = << >>

C5_Testigo ==
    /\ AgregadoPorAnio
    /\ Len(proyectos_por_anio) = 2
    /\ proyectos_por_anio[2].Cantidad_Proyectos = 2
    /\ SinAnio # {}

\* C6: when a read of the loader fails, cargar_datos gives (None, None),
\* the script goes to the diagnostic panel and nothing is aggregated or
\* shown; the loader never gives exactly one None.
C6_Centinela ==
    /\ isna(gdf) <=> isna(df_excel)
    /\ falla \in {"geojson", "excel"} =>
           /\ cache = Some(<<None, None>>)
           /\ gdf = None
           /\ df_excel = None
           /\ pc \in {"inicio", "cargado", "diagnostico"}
           /\ proyectos_por_depto = << >>
           /\ gdf_merged = << >>
           /\ proyectos_por_anio = << >>
           /\ metricas = None
           /\ tabla_resumen = << >>

C6_Testigo == pc = "diagnostico" /\ falla = "excel"

\* C7: once cargar_datos has been called, no later call reads the files
\* or changes the cached result, and every call returns the cached result.
C7_Memoizado ==
    [][/\ ~isna(cache) => cache' = cache /\ lecturas' = lecturas
       /\ pc = "inicio" /\ pc' = "cargado" =>
              /\ ~isna(cache')
              /\ <<gdf', df_excel'>> = cache'[1]
              /\ lecturas' = 1]_vars

C7_Testigo == renders = 2 /\ pc = "cargado" /\ lecturas = 1 /\ ~isna(gdf)

\* C8: normalizing a normalized name gives it back unchanged, and two
\* names that differ only in letter case and in leading/trailing blanks
\* have the same normalized name.
C8_Normalizacion ==
    /\ paso = "renormalizado" => n1[2] = n1[1] /\ n2[2] = n2[1]
    /\ paso \in {"normalizado", "renormalizado"} /\ Equivalentes(s1, s2) =>
           n1[1] = n2[1]

C8_Testigo ==
    /\ paso = "renormalizado"
    /\ s1 = <<" ", "a", "b">>
    /\ s2 = <<"A", "b", " ">>
    /\ Equivalentes(s1, s2)
    /\ n1[1] = <<"A", "B">>

\* some region has strictly more records than every other region
UnaSolaMayor ==
    \A j \in 1..Len(Regiones) :
        j # PrimeraMayor =>
            Cardinality(Coincidencias(Regiones[j].NOMBRE_DPT))
                < Cardinality(Coincidencias(Regiones[PrimeraMayor].NOMBRE_DPT))

\* one raw spelling has strictly more records than every other spelling
UnaSolaGrafia ==
    LET col == Columna(Proyectos, "Departamento")
    IN  \E i \in 1..Len(col) :
            \A j \in 1..Len(col) :
                col[j] # col[i] =>
                    Apariciones(col, col[j][1]) < Apariciones(col, col[i][1])

\* C9: whenever there is a record, the metric "Departamento con Más
\* Proyectos" names the region with the greatest number of records, that
\* number being counted by normalized name and not by raw spelling.
\* Stated for the inputs that involve nothing else: every record names a
\* region, the regions have distinct names, and one region alone and one
\* raw spelling alone have the greatest number, so that no tie is to be
\* broken, whichever way equal counts are ordered.
C9_DepartamentoConMas ==
    /\ pc = "fin"
    /\ Len(Proyectos) > 0
    /\ \A i \in 1..Len(Proyectos) : NombraRegion(i)
    /\ NombresDistintos
    /\ UnaSolaMayor
    /\ UnaSolaGrafia
    => metricas.dept_max
           = Some(title(Normalizar(Regiones[PrimeraMayor].NOMBRE_DPT)))

\* C10: the metric "Departamentos con Proyectos" is the number of regions
\* of R with at least one record of their normalized name; it is at most
\* len(R).
C10_DepartamentosConProyectos ==
    pc = "fin" =>
        /\ metricas.departamentos
               = Cardinality({k \in 1..Len(Regiones) :
                                 Coincidencias(Regiones[k].NOMBRE_DPT) # {}})
        /\ metricas.departamentos <= Len(Regiones)

====
